---- MODULE Spec2Model ----
(***************************************************************************)
(* State-machine model of the SimpleToken ink! contract (src/lib.rs).      *)
(*                                                                         *)
(* The contract storage is the five fields of `SimpleToken`.  Every        *)
(* message is one atomic action: the host runs a message to completion     *)
(* before the next one starts.  Each message is modelled as a pure         *)
(* operator from (storage, caller, arguments) to (storage, result,         *)
(* emitted events); the actions draw the caller and the arguments from     *)
(* small sets and install the operator's outcome.                          *)
(*                                                                         *)
(* `Mapping::get(k).unwrap_or(d)` reads an absent key as d, and no message *)
(* ever removes a key or tests for presence, so a Mapping is modelled as   *)
(* a total function whose initial value is d everywhere.                   *)
(*                                                                         *)
(* u128 is modelled by the range 0..U128_MAX for a small U128_MAX, so that *)
(* the saturating arithmetic of the source is exercised.                   *)
(***************************************************************************)
EXTENDS Integers, Sequences, FiniteSets, TLC

\* balances, allowances, owner, paused, blacklist: the storage fields.
\* call:   the latest message (a history variable, see CallRecord).
VARIABLES balances, allowances, owner, paused, blacklist, call, spend

vars == <<balances, allowances, owner, paused, blacklist, call, spend>>

(***************************************************************************)
(* Bounds and input sets                                                   *)
(***************************************************************************)
\* Largest value of the balance/allowance integer type (stands for u128::MAX).
U128_MAX == 2

\* Longest recipients / amounts list passed to batch_transfer.
MaxBatch == 2

Accounts == {"alice", "bob", "carol"}

\* The account that calls the constructor.
Deployers == {"alice"}

\* Amount arguments of the messages: every value of the type.
Amounts == 0..U128_MAX

\* Amount arguments the actions draw: the boundary values of the type.
CallAmounts == {0, 1, U128_MAX}

\* (caller, spender) pairs used for approve, and as (from, caller) of
\* transfer_from.
ApprovePairs == {<<"alice", "bob">>}

\* Accounts passed to set_blacklist.
BlacklistTargets == {"bob"}

\* Callers, recipients and amounts used for batch_transfer.
BatchCallers == {"alice", "bob"}
BatchRecipients == {"bob", "carol"}
BatchAmounts == {1}

SeqsUpTo(S, n) == UNION {[1..k -> S] : k \in 0..n}

(***************************************************************************)
(* Results and events                                                      *)
(***************************************************************************)
Ok == "Ok"
ErrPaused == "Transfers are paused"
ErrSenderBlacklisted == "Sender is blacklisted"
ErrRecipientBlacklisted == "Recipient is blacklisted"
ErrMintOwner == "Only the owner can mint tokens"
ErrBurnBalance == "Not enough balance to burn"
ErrBalance == "Not enough balance"
ErrAllowance == "Allowance too low"
ErrPauseOwner == "Only owner can pause/unpause"
ErrBlacklistOwner == "Only owner can manage blacklist"
ErrLength == "Mismatched input lengths"

MintEvent(to, amount) == <<"Mint", to, amount>>
BurnEvent(from, amount) == <<"Burn", from, amount>>
TransferEvent(from, to, amount) == <<"Transfer", from, to, amount>>
ApprovalEvent(o, spender, amount) == <<"Approval", o, spender, amount>>

(***************************************************************************)
(* u128 arithmetic                                                         *)
(***************************************************************************)
\* Mutant of saturating_add: the sum wraps around instead of being clamped.
wrapping_add(a, b) == (a + b) % (U128_MAX + 1)

saturating_add(a, b) == IF a + b > U128_MAX THEN U128_MAX ELSE a + b

saturating_sub(a, b) == IF a < b THEN 0 ELSE a - b

(***************************************************************************)
(* Storage and the messages as pure operators                              *)
(***************************************************************************)
\* The storage struct, as a record of the current values of the variables.
Storage ==
  [balances |-> balances, allowances |-> allowances, owner |-> owner,
   paused |-> paused, blacklist |-> blacklist]

\* SimpleToken::new
new(caller) ==
  [balances |-> [a \in Accounts |-> 0],
   allowances |-> [p \in Accounts \X Accounts |-> 0],
   owner |-> caller,
   paused |-> FALSE,
   blacklist |-> [a \in Accounts |-> FALSE]]

\* Outcome of a message: the storage after it, its result, the events emitted.
Outcome(st, res, ev) == [st |-> st, res |-> res, ev |-> ev]

\* Mutant of can_transfer: the pause flag is not consulted.
can_transfer_ignoring_pause(st, from, to) ==
  IF st.blacklist[from] THEN ErrSenderBlacklisted
  ELSE IF st.blacklist[to] THEN ErrRecipientBlacklisted
  ELSE Ok

\* Mutant of can_transfer: the recipient is not looked up in the blacklist.
can_transfer_sender_only(st, from, to) ==
  IF st.paused THEN ErrPaused
  ELSE IF st.blacklist[from] THEN ErrSenderBlacklisted
  ELSE Ok

can_transfer(st, from, to) ==
  IF st.paused THEN ErrPaused
  ELSE IF st.blacklist[from] THEN ErrSenderBlacklisted
  ELSE IF st.blacklist[to] THEN ErrRecipientBlacklisted
  ELSE Ok

\* Mutant of mint: the owner check is missing.
mint_by_anyone(st, caller, to, amount) ==
  LET current == st.balances[to]
      new_balance == saturating_add(current, amount)
  IN Outcome([st EXCEPT !.balances[to] = new_balance], Ok,
             <<MintEvent(to, amount)>>)

mint(st, caller, to, amount) ==
  IF caller # st.owner THEN Outcome(st, ErrMintOwner, <<>>)
  ELSE LET current == st.balances[to]
           new_balance == saturating_add(current, amount)
       IN Outcome([st EXCEPT !.balances[to] = new_balance], Ok,
                  <<MintEvent(to, amount)>>)

\* Mutant of burn: the Burn event is not emitted.
burn_silent(st, caller, amount) ==
  LET balance == st.balances[caller] IN
  IF balance < amount THEN Outcome(st, ErrBurnBalance, <<>>)
  ELSE LET updated == saturating_sub(balance, amount)
       IN Outcome([st EXCEPT !.balances[caller] = updated], Ok, <<>>)

\* Mutant of burn: burning is refused while transfers are paused and to a
\* blacklisted caller.
burn_gated(st, caller, amount) ==
  LET gate == can_transfer(st, caller, caller)
      balance == st.balances[caller]
  IN IF gate # Ok THEN Outcome(st, gate, <<>>)
     ELSE IF balance < amount THEN Outcome(st, ErrBurnBalance, <<>>)
     ELSE LET updated == saturating_sub(balance, amount)
          IN Outcome([st EXCEPT !.balances[caller] = updated], Ok,
                     <<BurnEvent(caller, amount)>>)

burn(st, caller, amount) ==
  LET balance == st.balances[caller] IN
  IF balance < amount THEN Outcome(st, ErrBurnBalance, <<>>)
  ELSE LET updated == saturating_sub(balance, amount)
       IN Outcome([st EXCEPT !.balances[caller] = updated], Ok,
                  <<BurnEvent(caller, amount)>>)

balance_of(st, account) == st.balances[account]

\* Mutant of transfer: the recipient's balance is read before the sender is
\* debited.
transfer_stale_read(st, caller, to, amount) ==
  LET gate == can_transfer(st, caller, to) IN
  IF gate # Ok THEN Outcome(st, gate, <<>>)
  ELSE LET from_balance == st.balances[caller]
           to_balance == st.balances[to]
       IN IF from_balance < amount THEN Outcome(st, ErrBalance, <<>>)
          ELSE LET updated_from == saturating_sub(from_balance, amount)
                   st1 == [st EXCEPT !.balances[caller] = updated_from]
                   updated_to == saturating_add(to_balance, amount)
                   st2 == [st1 EXCEPT !.balances[to] = updated_to]
               IN Outcome(st2, Ok, <<TransferEvent(caller, to, amount)>>)

transfer(st, caller, to, amount) ==
  LET gate == can_transfer(st, caller, to) IN
  IF gate # Ok THEN Outcome(st, gate, <<>>)
  ELSE LET from_balance == st.balances[caller] IN
       IF from_balance < amount THEN Outcome(st, ErrBalance, <<>>)
       ELSE LET updated_from == saturating_sub(from_balance, amount)
                st1 == [st EXCEPT !.balances[caller] = updated_from]
                to_balance == st1.balances[to]
                updated_to == saturating_add(to_balance, amount)
                st2 == [st1 EXCEPT !.balances[to] = updated_to]
            IN Outcome(st2, Ok, <<TransferEvent(caller, to, amount)>>)

\* Mutant of approve: the amount is added to the current allowance.
approve_additive(st, caller, spender, amount) ==
  Outcome([st EXCEPT !.allowances[<<caller, spender>>] =
                       saturating_add(st.allowances[<<caller, spender>>], amount)],
          Ok, <<ApprovalEvent(caller, spender, amount)>>)

\* Mutant of approve: a non-zero allowance can only be replaced by zero.
approve_from_zero_only(st, caller, spender, amount) ==
  IF st.allowances[<<caller, spender>>] # 0 /\ amount # 0
  THEN Outcome(st, ErrAllowance, <<>>)
  ELSE Outcome([st EXCEPT !.allowances[<<caller, spender>>] = amount], Ok,
               <<ApprovalEvent(caller, spender, amount)>>)

\* Mutant of approve: the allowance is written for both orders of the pair.
approve_symmetric(st, caller, spender, amount) ==
  Outcome([st EXCEPT !.allowances[<<caller, spender>>] = amount,
                     !.allowances[<<spender, caller>>] = amount], Ok,
          <<ApprovalEvent(caller, spender, amount)>>)

approve(st, caller, spender, amount) ==
  Outcome([st EXCEPT !.allowances[<<caller, spender>>] = amount], Ok,
          <<ApprovalEvent(caller, spender, amount)>>)

allowance(st, o, spender) == st.allowances[<<o, spender>>]

\* Mutant of transfer_from: the allowance is consumed before the balance is
\* checked, and stays consumed when the balance check fails.
transfer_from_consume_first(st, caller, from, to, amount) ==
  LET gate == can_transfer(st, from, to) IN
  IF gate # Ok THEN Outcome(st, gate, <<>>)
  ELSE LET allow == st.allowances[<<from, caller>>] IN
       IF allow < amount THEN Outcome(st, ErrAllowance, <<>>)
       ELSE LET st0 == [st EXCEPT !.allowances[<<from, caller>>] =
                                    saturating_sub(allow, amount)]
                from_balance == st0.balances[from]
            IN IF from_balance < amount THEN Outcome(st0, ErrBalance, <<>>)
               ELSE LET st1 == [st0 EXCEPT !.balances[from] =
                                             saturating_sub(from_balance, amount)]
                        to_balance == st1.balances[to]
                        st2 == [st1 EXCEPT !.balances[to] =
                                             saturating_add(to_balance, amount)]
                    IN Outcome(st2, Ok, <<TransferEvent(from, to, amount)>>)

\* Mutant of transfer_from: the allowance is checked and not consumed.
transfer_from_keeps_allowance(st, caller, from, to, amount) ==
  LET gate == can_transfer(st, from, to) IN
  IF gate # Ok THEN Outcome(st, gate, <<>>)
  ELSE LET allow == st.allowances[<<from, caller>>] IN
       IF allow < amount THEN Outcome(st, ErrAllowance, <<>>)
       ELSE LET from_balance == st.balances[from] IN
            IF from_balance < amount THEN Outcome(st, ErrBalance, <<>>)
            ELSE LET st1 == [st EXCEPT !.balances[from] =
                                         saturating_sub(from_balance, amount)]
                     to_balance == st1.balances[to]
                     st2 == [st1 EXCEPT !.balances[to] =
                                          saturating_add(to_balance, amount)]
                 IN Outcome(st2, Ok, <<TransferEvent(from, to, amount)>>)

\* Mutant of transfer_from: a blacklisted caller is refused as well.
transfer_from_checks_caller(st, caller, from, to, amount) ==
  LET gate == IF ~st.paused /\ st.blacklist[caller] THEN ErrSenderBlacklisted
              ELSE can_transfer(st, from, to) IN
  IF gate # Ok THEN Outcome(st, gate, <<>>)
  ELSE LET allow == st.allowances[<<from, caller>>] IN
       IF allow < amount THEN Outcome(st, ErrAllowance, <<>>)
       ELSE LET from_balance == st.balances[from] IN
            IF from_balance < amount THEN Outcome(st, ErrBalance, <<>>)
            ELSE LET st1 == [st EXCEPT !.balances[from] =
                                         saturating_sub(from_balance, amount)]
                     to_balance == st1.balances[to]
                     st2 == [st1 EXCEPT !.balances[to] =
                                          saturating_add(to_balance, amount)]
                     st3 == [st2 EXCEPT !.allowances[<<from, caller>>] =
                                          saturating_sub(allow, amount)]
                 IN Outcome(st3, Ok, <<TransferEvent(from, to, amount)>>)

\* Mutant of transfer_from: the balance is checked before the allowance.
transfer_from_balance_first(st, caller, from, to, amount) ==
  LET gate == can_transfer(st, from, to) IN
  IF gate # Ok THEN Outcome(st, gate, <<>>)
  ELSE LET allow == st.allowances[<<from, caller>>]
           from_balance == st.balances[from]
       IN IF from_balance < amount THEN Outcome(st, ErrBalance, <<>>)
          ELSE IF allow < amount THEN Outcome(st, ErrAllowance, <<>>)
          ELSE LET st1 == [st EXCEPT !.balances[from] =
                                       saturating_sub(from_balance, amount)]
                   to_balance == st1.balances[to]
                   st2 == [st1 EXCEPT !.balances[to] =
                                        saturating_add(to_balance, amount)]
                   st3 == [st2 EXCEPT !.allowances[<<from, caller>>] =
                                        saturating_sub(allow, amount)]
               IN Outcome(st3, Ok, <<TransferEvent(from, to, amount)>>)

transfer_from(st, caller, from, to, amount) ==
  LET gate == can_transfer(st, from, to) IN
  IF gate # Ok THEN Outcome(st, gate, <<>>)
  ELSE LET allow == st.allowances[<<from, caller>>] IN
       IF allow < amount THEN Outcome(st, ErrAllowance, <<>>)
       ELSE LET from_balance == st.balances[from] IN
            IF from_balance < amount THEN Outcome(st, ErrBalance, <<>>)
            ELSE LET st1 == [st EXCEPT !.balances[from] =
                                         saturating_sub(from_balance, amount)]
                     to_balance == st1.balances[to]
                     st2 == [st1 EXCEPT !.balances[to] =
                                          saturating_add(to_balance, amount)]
                     st3 == [st2 EXCEPT !.allowances[<<from, caller>>] =
                                          saturating_sub(allow, amount)]
                 IN Outcome(st3, Ok, <<TransferEvent(from, to, amount)>>)

set_paused(st, caller, state) ==
  IF caller # st.owner THEN Outcome(st, ErrPauseOwner, <<>>)
  ELSE Outcome([st EXCEPT !.paused = state], Ok, <<>>)

\* Mutant of set_blacklist: blacklisting hands the contract over to the
\* account named.
set_blacklist_handover(st, caller, account, state) ==
  IF caller # st.owner THEN Outcome(st, ErrBlacklistOwner, <<>>)
  ELSE Outcome([st EXCEPT !.blacklist[account] = state, !.owner = account],
               Ok, <<>>)

set_blacklist(st, caller, account, state) ==
  IF caller # st.owner THEN Outcome(st, ErrBlacklistOwner, <<>>)
  ELSE Outcome([st EXCEPT !.blacklist[account] = state], Ok, <<>>)

\* The loop of batch_transfer from index i on (1-based), with the events
\* emitted so far; `?` returns the first failing transfer's error at once.
RECURSIVE batch_loop(_, _, _, _, _, _)
batch_loop(st, caller, recipients, amounts, i, ev) ==
  IF i > Len(recipients) THEN Outcome(st, Ok, ev)
  ELSE LET r == transfer(st, caller, recipients[i], amounts[i]) IN
       IF r.res # Ok THEN Outcome(r.st, r.res, ev \o r.ev)
       ELSE batch_loop(r.st, caller, recipients, amounts, i + 1, ev \o r.ev)

\* Mutant of batch_transfer: a failing element rolls the whole batch back.
batch_transfer_atomic(st, caller, recipients, amounts) ==
  IF Len(recipients) # Len(amounts) THEN Outcome(st, ErrLength, <<>>)
  ELSE LET r == batch_loop(st, caller, recipients, amounts, 1, <<>>)
       IN IF r.res # Ok THEN Outcome(st, r.res, <<>>) ELSE r

\* Mutant of batch_transfer: the lengths are not compared and the lists are
\* walked in step up to the end of the shorter.
batch_transfer_zip(st, caller, recipients, amounts) ==
  LET k == IF Len(recipients) < Len(amounts) THEN Len(recipients)
           ELSE Len(amounts)
  IN batch_loop(st, caller, SubSeq(recipients, 1, k), SubSeq(amounts, 1, k),
                1, <<>>)

\* Mutant of batch_transfer: a failing batch keeps the transfers it applied
\* and drops their events.
batch_transfer_events_on_success(st, caller, recipients, amounts) ==
  IF Len(recipients) # Len(amounts) THEN Outcome(st, ErrLength, <<>>)
  ELSE LET r == batch_loop(st, caller, recipients, amounts, 1, <<>>)
       IN IF r.res # Ok THEN Outcome(r.st, r.res, <<>>) ELSE r

batch_transfer(st, caller, recipients, amounts) ==
  IF Len(recipients) # Len(amounts) THEN Outcome(st, ErrLength, <<>>)
  ELSE batch_loop(st, caller, recipients, amounts, 1, <<>>)

(***************************************************************************)
(* The state machine                                                       *)
(***************************************************************************)
RECURSIVE SumOver(_, _)
SumOver(f, S) ==
  IF S = {} THEN 0
  ELSE LET x == CHOOSE y \in S : TRUE IN f[x] + SumOver(f, S \ {x})

\* Sum of all balances of a storage.
TotalBalance(st) == SumOver(st.balances, Accounts)

\* The record of the latest message: its name, its amount argument (0 when it
\* has none), the value before the message of the balance that mint credits,
\* of the allowance that approve and transfer_from write, or of the sum of
\* all balances for transfer (`old`, else 0), its result and the number of
\* events it emitted.
CallRecord(op, amount, old, r) ==
  [op |-> op, amount |-> amount, old |-> old, res |-> r.res, n |-> Len(r.ev)]

\* The record of delegated spending, kept by SpecSpend for every pair
\* (approver, spender) of ApprovePairs: the amount of the approver's latest
\* approve (`approved`, 0 before the first: new leaves every allowance 0),
\* the total amount that the spender's successful transfer_from calls have
\* taken out of the approver's balance since that approve (`moved`) and
\* between the approve before it and that approve (`prevMoved`), and the
\* largest value the allowance has had in any state so far (`peak`).
NoSpending ==
  [p \in ApprovePairs |-> [approved |-> 0, moved |-> 0, prevMoved |-> 0, peak |-> 0]]

\* The record after approve(amount) by p[1] for p[2].
AfterApprove(sp, p, amount) ==
  [sp EXCEPT ![p] = [approved |-> amount, moved |-> 0,
                     prevMoved |-> sp[p].moved, peak |-> sp[p].peak]]

\* The record after transfer_from(p[1], to, amount) by p[2] with outcome r;
\* a transfer back to p[1] takes nothing out of its balance.
AfterTransferFrom(sp, p, to, amount, r) ==
  IF r.res = Ok /\ to # p[1] THEN [sp EXCEPT ![p].moved = @ + amount] ELSE sp

\* The record with the allowances of storage st taken into the peaks.
Seen(sp, st) ==
  [p \in ApprovePairs |->
     [sp[p] EXCEPT !.peak = IF st.allowances[p] > @ THEN st.allowances[p] ELSE @]]

Init ==
  \E deployer \in Deployers :
    LET st == new(deployer) IN
    /\ balances = st.balances
    /\ allowances = st.allowances
    /\ owner = st.owner
    /\ paused = st.paused
    /\ blacklist = st.blacklist
    /\ call = CallRecord("new", 0, 0, Outcome(st, Ok, <<>>))
    /\ spend = NoSpending

Mint ==
  \E caller \in Accounts, to \in Accounts, amount \in CallAmounts :
    LET r == mint(Storage, caller, to, amount) IN
    /\ balances' = r.st.balances
    /\ allowances' = r.st.allowances
    /\ owner' = r.st.owner
    /\ paused' = r.st.paused
    /\ blacklist' = r.st.blacklist
    /\ call' = CallRecord("mint", amount, balances[to], r)
    /\ spend' = spend

Burn ==
  \E caller \in Accounts, amount \in CallAmounts :
    LET r == burn(Storage, caller, amount) IN
    /\ balances' = r.st.balances
    /\ allowances' = r.st.allowances
    /\ owner' = r.st.owner
    /\ paused' = r.st.paused
    /\ blacklist' = r.st.blacklist
    /\ call' = CallRecord("burn", amount, 0, r)
    /\ spend' = spend

Transfer ==
  \E caller \in Accounts, to \in Accounts, amount \in CallAmounts :
    LET r == transfer(Storage, caller, to, amount) IN
    /\ balances' = r.st.balances
    /\ allowances' = r.st.allowances
    /\ owner' = r.st.owner
    /\ paused' = r.st.paused
    /\ blacklist' = r.st.blacklist
    /\ call' = CallRecord("transfer", amount, TotalBalance(Storage), r)
    /\ spend' = spend

Approve ==
  \E p \in ApprovePairs, amount \in CallAmounts :
    LET r == approve(Storage, p[1], p[2], amount) IN
    /\ balances' = r.st.balances
    /\ allowances' = r.st.allowances
    /\ owner' = r.st.owner
    /\ paused' = r.st.paused
    /\ blacklist' = r.st.blacklist
    /\ call' = CallRecord("approve", amount, allowances[p], r)
    /\ spend' = spend

TransferFrom ==
  \E p \in ApprovePairs, to \in Accounts, amount \in CallAmounts :
    LET r == transfer_from(Storage, p[2], p[1], to, amount) IN
    /\ balances' = r.st.balances
    /\ allowances' = r.st.allowances
    /\ owner' = r.st.owner
    /\ paused' = r.st.paused
    /\ blacklist' = r.st.blacklist
    /\ call' = CallRecord("transfer_from", amount, allowances[p], r)
    /\ spend' = spend

SetPaused ==
  \E caller \in Accounts, state \in BOOLEAN :
    LET r == set_paused(Storage, caller, state) IN
    /\ balances' = r.st.balances
    /\ allowances' = r.st.allowances
    /\ owner' = r.st.owner
    /\ paused' = r.st.paused
    /\ blacklist' = r.st.blacklist
    /\ call' = CallRecord("set_paused", 0, 0, r)
    /\ spend' = spend

SetBlacklist ==
  \E caller \in Accounts, account \in BlacklistTargets, state \in BOOLEAN :
    LET r == set_blacklist(Storage, caller, account, state) IN
    /\ balances' = r.st.balances
    /\ allowances' = r.st.allowances
    /\ owner' = r.st.owner
    /\ paused' = r.st.paused
    /\ blacklist' = r.st.blacklist
    /\ call' = CallRecord("set_blacklist", 0, 0, r)
    /\ spend' = spend

BatchTransfer ==
  \E caller \in BatchCallers,
     recipients \in SeqsUpTo(BatchRecipients, MaxBatch),
     amounts \in SeqsUpTo(BatchAmounts, MaxBatch) :
    LET r == batch_transfer(Storage, caller, recipients, amounts) IN
    /\ balances' = r.st.balances
    /\ allowances' = r.st.allowances
    /\ owner' = r.st.owner
    /\ paused' = r.st.paused
    /\ blacklist' = r.st.blacklist
    /\ call' = CallRecord("batch_transfer", 0, 0, r)
    /\ spend' = spend

Next ==
  \/ Mint
  \/ Burn
  \/ Transfer
  \/ Approve
  \/ TransferFrom
  \/ SetPaused
  \/ SetBlacklist
  \/ BatchTransfer

Spec == Init /\ [][Next]_vars

(***************************************************************************)
(* The same messages with the record of delegated spending kept: Spec      *)
(* records the latest message in `call` and leaves `spend` as new left it, *)
(* SpecSpend records the spending in `spend` and leaves `call` as new left *)
(* it.  The storage changes as in Spec.                                    *)
(***************************************************************************)
SpendMint ==
  \E caller \in Accounts, to \in Accounts, amount \in CallAmounts :
    LET r == mint(Storage, caller, to, amount) IN
    /\ balances' = r.st.balances
    /\ allowances' = r.st.allowances
    /\ owner' = r.st.owner
    /\ paused' = r.st.paused
    /\ blacklist' = r.st.blacklist
    /\ call' = call
    /\ spend' = Seen(spend, r.st)

SpendBurn ==
  \E caller \in Accounts, amount \in CallAmounts :
    LET r == burn(Storage, caller, amount) IN
    /\ balances' = r.st.balances
    /\ allowances' = r.st.allowances
    /\ owner' = r.st.owner
    /\ paused' = r.st.paused
    /\ blacklist' = r.st.blacklist
    /\ call' = call
    /\ spend' = Seen(spend, r.st)

SpendTransfer ==
  \E caller \in Accounts, to \in Accounts, amount \in CallAmounts :
    LET r == transfer(Storage, caller, to, amount) IN
    /\ balances' = r.st.balances
    /\ allowances' = r.st.allowances
    /\ owner' = r.st.owner
    /\ paused' = r.st.paused
    /\ blacklist' = r.st.blacklist
    /\ call' = call
    /\ spend' = Seen(spend, r.st)

SpendApprove ==
  \E p \in ApprovePairs, amount \in CallAmounts :
    LET r == approve(Storage, p[1], p[2], amount) IN
    /\ balances' = r.st.balances
    /\ allowances' = r.st.allowances
    /\ owner' = r.st.owner
    /\ paused' = r.st.paused
    /\ blacklist' = r.st.blacklist
    /\ call' = call
    /\ spend' = Seen(AfterApprove(spend, p, amount), r.st)

SpendTransferFrom ==
  \E p \in ApprovePairs, to \in Accounts, amount \in CallAmounts :
    LET r == transfer_from(Storage, p[2], p[1], to, amount) IN
    /\ balances' = r.st.balances
    /\ allowances' = r.st.allowances
    /\ owner' = r.st.owner
    /\ paused' = r.st.paused
    /\ blacklist' = r.st.blacklist
    /\ call' = call
    /\ spend' = Seen(AfterTransferFrom(spend, p, to, amount, r), r.st)

SpendSetPaused ==
  \E caller \in Accounts, state \in BOOLEAN :
    LET r == set_paused(Storage, caller, state) IN
    /\ balances' = r.st.balances
    /\ allowances' = r.st.allowances
    /\ owner' = r.st.owner
    /\ paused' = r.st.paused
    /\ blacklist' = r.st.blacklist
    /\ call' = call
    /\ spend' = Seen(spend, r.st)

SpendSetBlacklist ==
  \E caller \in Accounts, account \in BlacklistTargets, state \in BOOLEAN :
    LET r == set_blacklist(Storage, caller, account, state) IN
    /\ balances' = r.st.balances
    /\ allowances' = r.st.allowances
    /\ owner' = r.st.owner
    /\ paused' = r.st.paused
    /\ blacklist' = r.st.blacklist
    /\ call' = call
    /\ spend' = Seen(spend, r.st)

SpendBatchTransfer ==
  \E caller \in BatchCallers,
     recipients \in SeqsUpTo(BatchRecipients, MaxBatch),
     amounts \in SeqsUpTo(BatchAmounts, MaxBatch) :
    LET r == batch_transfer(Storage, caller, recipients, amounts) IN
    /\ balances' = r.st.balances
    /\ allowances' = r.st.allowances
    /\ owner' = r.st.owner
    /\ paused' = r.st.paused
    /\ blacklist' = r.st.blacklist
    /\ call' = call
    /\ spend' = Seen(spend, r.st)

NextSpend ==
  \/ SpendMint
  \/ SpendBurn
  \/ SpendTransfer
  \/ SpendApprove
  \/ SpendTransferFrom
  \/ SpendSetPaused
  \/ SpendSetBlacklist
  \/ SpendBatchTransfer

SpecSpend == Init /\ [][NextSpend]_vars

(***************************************************************************)
(* Vocabulary of the properties                                            *)
(***************************************************************************)
Min(a, b) == IF a < b THEN a ELSE b

\* The three "only the owner" errors and the two blacklist errors.
Unauthorized == {ErrMintOwner, ErrPauseOwner, ErrBlacklistOwner}
Blacklisted == {ErrSenderBlacklisted, ErrRecipientBlacklisted}

\* Lists of equal length used to examine batch_transfer in a state.
ProbeBatchAmounts == {1, U128_MAX}
ProbeBatches ==
  UNION {[1..k -> BatchRecipients] \X [1..k -> ProbeBatchAmounts] : k \in 0..MaxBatch}

\* Lists of equal length with the amounts that the BatchTransfer action draws.
UnitBatches ==
  UNION {[1..k -> BatchRecipients] \X [1..k -> BatchAmounts] : k \in 0..MaxBatch}

\* Storage after the first j elements of a batch have been transferred.
RECURSIVE PrefixState(_, _, _, _, _)
PrefixState(st, caller, recipients, amounts, j) ==
  IF j = 0 THEN st
  ELSE transfer(PrefixState(st, caller, recipients, amounts, j - 1),
                caller, recipients[j], amounts[j]).st

\* Index of the first element from i on whose transfer, made after the
\* elements before it, fails; Len + 1 when none does.
RECURSIVE FirstFailureFrom(_, _, _, _, _)
FirstFailureFrom(st, caller, recipients, amounts, i) ==
  IF i > Len(recipients) THEN i
  ELSE LET r == transfer(st, caller, recipients[i], amounts[i])
       IN IF r.res # Ok THEN i
          ELSE FirstFailureFrom(r.st, caller, recipients, amounts, i + 1)

\* Index of the first element whose transfer fails; Len + 1 when none does.
FirstFailure(st, caller, recipients, amounts) ==
  FirstFailureFrom(st, caller, recipients, amounts, 1)

(***************************************************************************)
(* C1: the sum of all balances equals the total of the successful mints    *)
(* minus the total of the successful burns, after any sequence of calls.   *)
(* Both are 0 after new, so the claim is that in every reachable state     *)
(* every call changes the sum by what it adds to that difference: a        *)
(* successful mint raises the sum by its amount, a successful burn lowers  *)
(* it by its amount, and every other call leaves it as it was.  Stated as  *)
(* the claim has it; the saturating credit of mint (and of transfer and    *)
(* transfer_from) breaks it.                                               *)
(***************************************************************************)
C1_Conservation ==
  \A caller \in Accounts, to \in Accounts, amount \in Amounts :
    /\ LET r == mint(Storage, caller, to, amount)
       IN TotalBalance(r.st) =
            TotalBalance(Storage) + (IF r.res = Ok THEN amount ELSE 0)
    /\ LET r == burn(Storage, caller, amount)
       IN TotalBalance(r.st) =
            TotalBalance(Storage) - (IF r.res = Ok THEN amount ELSE 0)
    /\ TotalBalance(transfer(Storage, caller, to, amount).st) = TotalBalance(Storage)
    /\ approve(Storage, caller, to, amount).st.balances = balances
    /\ \A from \in Accounts :
         TotalBalance(transfer_from(Storage, caller, from, to, amount).st)
           = TotalBalance(Storage)
    /\ \A state \in BOOLEAN :
         /\ set_paused(Storage, caller, state).st.balances = balances
         /\ set_blacklist(Storage, caller, to, state).st.balances = balances

(***************************************************************************)
(* C2: every call of mint, burn, transfer, approve, transfer_from,         *)
(* set_paused or set_blacklist that returns an error leaves the whole      *)
(* storage (balances, allowances, owner, paused, blacklist) as it was.     *)
(***************************************************************************)
C2_ErrorLeavesStateUnchanged ==
  /\ \A caller \in Accounts, to \in Accounts, amount \in Amounts :
       /\ LET r == mint(Storage, caller, to, amount)
          IN r.res # Ok => r.st = Storage
       /\ LET r == transfer(Storage, caller, to, amount)
          IN r.res # Ok => r.st = Storage
       /\ LET r == approve(Storage, caller, to, amount)
          IN r.res # Ok => r.st = Storage
       /\ \A from \in Accounts :
            LET r == transfer_from(Storage, caller, from, to, amount)
            IN r.res # Ok => r.st = Storage
  /\ \A caller \in Accounts, amount \in Amounts :
       LET r == burn(Storage, caller, amount)
       IN r.res # Ok => r.st = Storage
  /\ \A caller \in Accounts, state \in BOOLEAN :
       /\ LET r == set_paused(Storage, caller, state)
          IN r.res # Ok => r.st = Storage
       /\ \A account \in Accounts :
            LET r == set_blacklist(Storage, caller, account, state)
            IN r.res # Ok => r.st = Storage

\* A transfer_from has just failed on the balance check, its allowance
\* check having passed.
C2_Witness ==
  /\ call.op = "transfer_from"
  /\ call.res = ErrBalance
  /\ call.amount > 0
  /\ call.old >= call.amount

(***************************************************************************)
(* C3: batch_transfer with lists of equal length applies the transfers in  *)
(* increasing index order; if element k is the first to fail the call      *)
(* returns that transfer's error, the transfers before k stay applied and  *)
(* no transfer from k on is applied; if none fails all are applied and the *)
(* call succeeds.                                                          *)
(***************************************************************************)
C3_BatchPartialCommit ==
  \A caller \in BatchCallers, b \in ProbeBatches :
    LET recipients == b[1]
        amounts == b[2]
        r == batch_transfer(Storage, caller, recipients, amounts)
        k == FirstFailure(Storage, caller, recipients, amounts)
        applied == PrefixState(Storage, caller, recipients, amounts, k - 1)
    IN Len(recipients) = Len(amounts) =>
         /\ r.st = applied
         /\ r.res = IF k > Len(recipients) THEN Ok
                    ELSE transfer(applied, caller, recipients[k], amounts[k]).res
         /\ Len(r.ev) = k - 1

\* A batch has just failed on its second element for lack of balance, its
\* first transfer having been applied.
C3_Witness ==
  /\ call.op = "batch_transfer"
  /\ call.res = ErrBalance
  /\ call.n = 1

(***************************************************************************)
(* C4: mint, set_paused and set_blacklist called by anyone but the owner   *)
(* return their "only the owner" error and change nothing, in every        *)
(* reachable state.                                                        *)
(***************************************************************************)
C4_OwnerOnly ==
  \A caller \in Accounts \ {owner} :
    /\ \A to \in Accounts, amount \in Amounts :
         LET r == mint(Storage, caller, to, amount)
         IN r.res = ErrMintOwner /\ r.st = Storage
    /\ \A state \in BOOLEAN :
         /\ LET r == set_paused(Storage, caller, state)
            IN r.res = ErrPauseOwner /\ r.st = Storage
         /\ \A account \in Accounts :
              LET r == set_blacklist(Storage, caller, account, state)
              IN r.res = ErrBlacklistOwner /\ r.st = Storage

\* A mint of a positive amount by a non-owner has just been refused.
C4_Witness ==
  /\ call.op = "mint"
  /\ call.res \in Unauthorized
  /\ call.amount > 0

(***************************************************************************)
(* C5: every successful transfer(to, N) by caller a lowers balance_of(a)   *)
(* by exactly N, raises balance_of(to) by exactly N, leaves every other    *)
(* balance and the sum of balances unchanged.  Stated for a recipient      *)
(* other than the caller (for to = a the two balance clauses contradict    *)
(* each other unless N = 0).  The saturating credit breaks it.             *)
(***************************************************************************)
C5_TransferMovesExactly ==
  \A caller \in Accounts : \A to \in Accounts \ {caller}, amount \in Amounts :
    LET r == transfer(Storage, caller, to, amount) IN
    r.res = Ok =>
      /\ balance_of(r.st, caller) = balance_of(Storage, caller) - amount
      /\ balance_of(r.st, to) = balance_of(Storage, to) + amount
      /\ \A other \in Accounts \ {caller, to} :
           balance_of(r.st, other) = balance_of(Storage, other)
      /\ TotalBalance(r.st) = TotalBalance(Storage)

(***************************************************************************)
(* C6: a successful transfer_from(from, to, N) by caller c lowers          *)
(* allowance(from, c) by exactly N, lowers balance_of(from) by N and       *)
(* raises balance_of(to) by N; with allowance(from, c) < N, and transfers  *)
(* neither paused nor blacklisted, it fails with the allowance error and   *)
(* changes no balance and no allowance.  Stated for to other than from.    *)
(* The saturating credit breaks the clause on balance_of(to).              *)
(***************************************************************************)
C6_TransferFromMovesExactly ==
  \A caller \in Accounts, from \in Accounts :
  \A to \in Accounts \ {from}, amount \in Amounts :
    LET r == transfer_from(Storage, caller, from, to, amount) IN
    /\ r.res = Ok =>
         /\ allowance(r.st, from, caller) = allowance(Storage, from, caller) - amount
         /\ balance_of(r.st, from) = balance_of(Storage, from) - amount
         /\ balance_of(r.st, to) = balance_of(Storage, to) + amount
    /\ (/\ allowance(Storage, from, caller) < amount
        /\ can_transfer(Storage, from, to) = Ok) =>
         /\ r.res = ErrAllowance
         /\ r.st = Storage

(***************************************************************************)
(* C7: while the pause flag is set, every transfer and every transfer_from *)
(* fails with the pause error and moves nothing, whatever the caller,      *)
(* accounts, amount, balance and allowance; the flag is set and cleared    *)
(* only by a set_paused of the owner, which always succeeds and installs   *)
(* the given value; while it is clear, transfers are decided by blacklist, *)
(* allowance and balance only.                                             *)
(***************************************************************************)
\* What blacklist, allowance and balance alone decide.
UnpausedTransferResult(st, from, to, amount) ==
  IF st.blacklist[from] THEN ErrSenderBlacklisted
  ELSE IF st.blacklist[to] THEN ErrRecipientBlacklisted
  ELSE IF st.balances[from] < amount THEN ErrBalance
  ELSE Ok

UnpausedTransferFromResult(st, caller, from, to, amount) ==
  IF st.blacklist[from] THEN ErrSenderBlacklisted
  ELSE IF st.blacklist[to] THEN ErrRecipientBlacklisted
  ELSE IF st.allowances[<<from, caller>>] < amount THEN ErrAllowance
  ELSE IF st.balances[from] < amount THEN ErrBalance
  ELSE Ok

C7_PausedBlocksTransfers ==
  /\ \A caller \in Accounts, to \in Accounts, amount \in Amounts :
       /\ LET r == transfer(Storage, caller, to, amount) IN
          IF paused THEN r.res = ErrPaused /\ r.st = Storage
          ELSE r.res = UnpausedTransferResult(Storage, caller, to, amount)
       /\ \A from \in Accounts :
            LET r == transfer_from(Storage, caller, from, to, amount) IN
            IF paused THEN r.res = ErrPaused /\ r.st = Storage
            ELSE r.res = UnpausedTransferFromResult(Storage, caller, from, to, amount)
       \* no other message touches the flag
       /\ mint(Storage, caller, to, amount).st.paused = paused
       /\ burn(Storage, caller, amount).st.paused = paused
       /\ approve(Storage, caller, to, amount).st.paused = paused
       /\ \A state \in BOOLEAN :
            set_blacklist(Storage, caller, to, state).st.paused = paused
  /\ \A caller \in BatchCallers, b \in UnitBatches :
       batch_transfer(Storage, caller, b[1], b[2]).st.paused = paused
  /\ \A caller \in Accounts, state \in BOOLEAN :
       LET r == set_paused(Storage, caller, state) IN
       IF caller = owner THEN r.res = Ok /\ r.st.paused = state
       ELSE r.st.paused = paused

\* Transfers are paused, an account holds tokens, and a transfer of a positive
\* amount that the balance covers has just been refused for the pause.
C7_Witness ==
  /\ paused
  /\ call.op = "transfer"
  /\ call.res = ErrPaused
  /\ call.amount > 0
  /\ \A a \in Accounts : balances[a] >= call.amount

(***************************************************************************)
(* C8, as stated: while account x is a blacklist member, every transfer    *)
(* whose caller or recipient is x and every transfer_from whose from or to *)
(* is x fails with a blacklist error and moves no balance.                 *)
(***************************************************************************)
\* Every transfer and transfer_from that involves x has a result in `allowed`
\* and leaves the storage as it is.
TransfersInvolvingFail(x, allowed) ==
  \A other \in Accounts, amount \in Amounts :
    /\ LET r == transfer(Storage, x, other, amount)
       IN r.res \in allowed /\ r.st = Storage
    /\ LET r == transfer(Storage, other, x, amount)
       IN r.res \in allowed /\ r.st = Storage
    /\ \A caller \in Accounts :
         /\ LET r == transfer_from(Storage, caller, x, other, amount)
            IN r.res \in allowed /\ r.st = Storage
         /\ LET r == transfer_from(Storage, caller, other, x, amount)
            IN r.res \in allowed /\ r.st = Storage

C8_BlacklistedFailsBlacklisted ==
  \A x \in Accounts : blacklist[x] => TransfersInvolvingFail(x, Blacklisted)

(***************************************************************************)
(* C8, amended: while account x is a blacklist member, every transfer      *)
(* whose caller or recipient is x and every transfer_from whose from or to *)
(* is x fails and moves no balance: with the pause error while transfers   *)
(* are paused, with a blacklist error otherwise.                           *)
(***************************************************************************)
C8_BlacklistedFails ==
  \A x \in Accounts :
    blacklist[x] =>
      TransfersInvolvingFail(x, IF paused THEN {ErrPaused} ELSE Blacklisted)

\* bob is blacklisted, transfers are not paused, bob holds tokens, and a
\* transfer of a positive amount has just been refused for the recipient.
C8_Witness ==
  /\ blacklist["bob"]
  /\ ~paused
  /\ balances["bob"] > 0
  /\ call.op = "transfer"
  /\ call.res = ErrRecipientBlacklisted
  /\ call.amount > 0

(***************************************************************************)
(* C9: approve sets allowance(caller, spender) to exactly the given        *)
(* amount, replacing the previous value: approve(c, N1) followed by        *)
(* approve(c, N2) by the same caller leaves allowance(a, c) = N2, not      *)
(* N1 + N2, for all N1, N2.                                                *)
(***************************************************************************)
C9_ApproveOverwrites ==
  \A a \in Accounts, c \in Accounts, N1 \in Amounts, N2 \in Amounts :
    LET first == approve(Storage, a, c, N1)
        second == approve(first.st, a, c, N2)
    IN /\ first.res = Ok
       /\ allowance(first.st, a, c) = N1
       /\ second.res = Ok
       /\ allowance(second.st, a, c) = N2

\* An approve has just replaced a larger positive allowance by a smaller
\* positive one.
C9_Witness ==
  /\ call.op = "approve"
  /\ call.res = Ok
  /\ call.amount > 0
  /\ call.old > call.amount
  /\ \E p \in ApprovePairs : allowances[p] = call.amount

(***************************************************************************)
(* C10: after a mint(a, N) by the owner, balance_of(a) is                  *)
(* min(old balance + N, maximum value): it grows by exactly N unless that  *)
(* would overflow, and is then clamped at the maximum, never wrapped; the  *)
(* owner's mint never fails.                                               *)
(***************************************************************************)
C10_MintSaturates ==
  \A a \in Accounts, N \in Amounts :
    LET r == mint(Storage, owner, a, N) IN
    /\ r.res = Ok
    /\ balance_of(r.st, a) = Min(balance_of(Storage, a) + N, U128_MAX)
    /\ \A other \in Accounts \ {a} :
         balance_of(r.st, other) = balance_of(Storage, other)

\* A mint whose sum overflows has just succeeded and left the maximum.
C10_Witness ==
  /\ call.op = "mint"
  /\ call.res = Ok
  /\ call.old > 0
  /\ call.old + call.amount > U128_MAX
  /\ \E a \in Accounts : balances[a] = U128_MAX

(***************************************************************************)
(* C11, first part, common to the claim as stated and as amended: a call   *)
(* of mint, burn, transfer, approve, transfer_from, set_paused or          *)
(* set_blacklist that returns an error emits no event, and a successful    *)
(* mint, burn, transfer, approve or transfer_from emits exactly one event, *)
(* Mint(to, amount), Burn(caller, amount), Transfer(from, to, amount) or   *)
(* Approval(owner, spender, amount), carrying the call's arguments.        *)
(***************************************************************************)
SingleCallEvents ==
  /\ \A caller \in Accounts, to \in Accounts, amount \in Amounts :
       /\ LET r == mint(Storage, caller, to, amount)
          IN r.ev = IF r.res = Ok THEN <<MintEvent(to, amount)>> ELSE <<>>
       /\ LET r == transfer(Storage, caller, to, amount)
          IN r.ev = IF r.res = Ok THEN <<TransferEvent(caller, to, amount)>> ELSE <<>>
       /\ LET r == approve(Storage, caller, to, amount)
          IN r.ev = IF r.res = Ok THEN <<ApprovalEvent(caller, to, amount)>> ELSE <<>>
       /\ \A from \in Accounts :
            LET r == transfer_from(Storage, caller, from, to, amount)
            IN r.ev = IF r.res = Ok THEN <<TransferEvent(from, to, amount)>> ELSE <<>>
  /\ \A caller \in Accounts, amount \in Amounts :
       LET r == burn(Storage, caller, amount)
       IN r.ev = IF r.res = Ok THEN <<BurnEvent(caller, amount)>> ELSE <<>>
  /\ \A caller \in Accounts, state \in BOOLEAN :
       /\ LET r == set_paused(Storage, caller, state)
          IN r.res # Ok => r.ev = <<>>
       /\ \A account \in Accounts :
            LET r == set_blacklist(Storage, caller, account, state)
            IN r.res # Ok => r.ev = <<>>

\* Lists of any two lengths used to examine batch_transfer in a state.
ProbeLists ==
  SeqsUpTo(BatchRecipients, MaxBatch) \X SeqsUpTo(ProbeBatchAmounts, MaxBatch)

\* Those of them whose two lists differ in length.
MismatchedLists == {b \in ProbeLists : Len(b[1]) # Len(b[2])}

(***************************************************************************)
(* C11, as stated: events are emitted on success only.  Every call that    *)
(* returns an error, batch_transfer included, has emitted no event; the    *)
(* successful calls emit as in SingleCallEvents.                           *)
(***************************************************************************)
C11_EventsOnSuccessOnly ==
  /\ SingleCallEvents
  /\ \A caller \in BatchCallers, b \in ProbeLists :
       LET r == batch_transfer(Storage, caller, b[1], b[2])
       IN r.res # Ok => r.ev = <<>>

(***************************************************************************)
(* C11, amended: as stated for the single calls and for a batch_transfer   *)
(* with lists of different lengths; a batch_transfer with lists of equal   *)
(* length emits one Transfer(caller, recipients[i], amounts[i]) event for  *)
(* each transfer it applied, in index order, also when it then returns     *)
(* the error of a later element: exactly as many events as transfers were  *)
(* applied (the elements before the first failing one), all of them when   *)
(* it succeeds, a proper prefix of them when it fails.                     *)
(***************************************************************************)
C11_EventsPerAppliedOperation ==
  /\ SingleCallEvents
  /\ \A caller \in BatchCallers, b \in MismatchedLists :
       batch_transfer(Storage, caller, b[1], b[2]).ev = <<>>
  /\ \A caller \in BatchCallers, b \in ProbeBatches :
       LET recipients == b[1]
           amounts == b[2]
           r == batch_transfer(Storage, caller, recipients, amounts)
           k == FirstFailure(Storage, caller, recipients, amounts)
       IN \* one event for each transfer applied, the k - 1 before the first
          \* failing element, and the storage is the one they leave
          /\ Len(r.ev) = k - 1
          /\ r.st = PrefixState(Storage, caller, recipients, amounts, k - 1)
          /\ \A i \in 1..(k - 1) :
               r.ev[i] = TransferEvent(caller, recipients[i], amounts[i])
          /\ IF r.res = Ok THEN Len(r.ev) = Len(recipients)
             ELSE Len(r.ev) < Len(recipients)

\* A batch has just been stopped by a blacklisted recipient after one of its
\* transfers was applied and its event emitted.
C11_Witness ==
  /\ call.op = "batch_transfer"
  /\ call.res = ErrRecipientBlacklisted
  /\ call.n = 1

(***************************************************************************)
(* C12: the owner is the account that constructed the contract, in every   *)
(* reachable state: no message, by any caller with any arguments, returns  *)
(* a storage whose owner differs from the current one.                     *)
(***************************************************************************)
C12_OwnerFixed ==
  /\ owner \in Deployers
  /\ \A deployer \in Deployers : new(deployer).owner = deployer
  /\ \A caller \in Accounts, to \in Accounts, amount \in Amounts :
       /\ mint(Storage, caller, to, amount).st.owner = owner
       /\ burn(Storage, caller, amount).st.owner = owner
       /\ transfer(Storage, caller, to, amount).st.owner = owner
       /\ approve(Storage, caller, to, amount).st.owner = owner
       /\ \A from \in Accounts :
            transfer_from(Storage, caller, from, to, amount).st.owner = owner
       /\ \A state \in BOOLEAN :
            /\ set_paused(Storage, caller, state).st.owner = owner
            /\ set_blacklist(Storage, caller, to, state).st.owner = owner
  /\ \A caller \in BatchCallers, b \in UnitBatches :
       batch_transfer(Storage, caller, b[1], b[2]).st.owner = owner

\* After mints, two approvals with delegated transfers by the spender under
\* each, a blacklisting and a pause, the owner is still the deployer.
C12_Witness ==
  /\ owner \in Deployers
  /\ paused /\ blacklist["bob"]
  /\ \E p \in ApprovePairs : spend[p].prevMoved > 0 /\ spend[p].moved > 0

(***************************************************************************)
(* C13: batch_transfer with recipients and amounts of different lengths    *)
(* returns the length error, leaves the storage as it was and emits no     *)
(* event, whatever the lists hold and whether or not transfers are paused  *)
(* or accounts blacklisted.                                                *)
(***************************************************************************)
C13_LengthMismatchTouchesNothing ==
  \A caller \in Accounts, b \in MismatchedLists :
    batch_transfer(Storage, caller, b[1], b[2]) = Outcome(Storage, ErrLength, <<>>)

\* A mismatched batch has just been refused while transfers are paused, an
\* account is blacklisted and tokens are in circulation.
C13_Witness ==
  /\ call.op = "batch_transfer" /\ call.res = ErrLength /\ call.n = 0
  /\ paused /\ blacklist["bob"] /\ balances["alice"] > 0

(***************************************************************************)
(* C14: approve never fails.  In every reachable state approve(spender, N) *)
(* by any caller returns success and the storage after it differs from the *)
(* storage before it in allowance(caller, spender) only, which is N: every *)
(* other pair, the reversed pair included, the balances, the pause flag,   *)
(* the blacklist and the owner are as before.                              *)
(***************************************************************************)
C14_ApproveNeverFails ==
  \A caller \in Accounts, spender \in Accounts, amount \in Amounts :
    LET r == approve(Storage, caller, spender, amount) IN
    /\ r.res = Ok
    /\ r.st = [Storage EXCEPT !.allowances[<<caller, spender>>] = amount]
    /\ \A p \in (Accounts \X Accounts) \ {<<caller, spender>>} :
         r.st.allowances[p] = allowances[p]

\* approve has just succeeded while transfers are paused, the spender is
\* blacklisted and the amount approved is more than the approver holds.
C14_Witness ==
  /\ call.op = "approve" /\ call.res = Ok
  /\ paused /\ blacklist["bob"]
  /\ call.amount > balances["alice"]
  /\ allowances[<<"alice", "bob">>] = call.amount
  /\ allowances[<<"bob", "alice">>] = 0

\* The result the code's order of checks gives transfer_from: pause, sender
\* blacklist, recipient blacklist, allowance, balance.
TransferFromPrecedence(caller, from, to, amount) ==
  IF paused THEN ErrPaused
  ELSE IF blacklist[from] THEN ErrSenderBlacklisted
  ELSE IF blacklist[to] THEN ErrRecipientBlacklisted
  ELSE IF allowances[<<from, caller>>] < amount THEN ErrAllowance
  ELSE IF balances[from] < amount THEN ErrBalance
  ELSE Ok

(***************************************************************************)
(* C15: transfer_from reports its failures in a fixed precedence: paused   *)
(* first, then blacklisted (from before to), then allowance exceeded, then *)
(* insufficient balance.  With both the allowance and the balance of from  *)
(* below the amount it returns the allowance error, and when paused it     *)
(* returns the pause error even if an account is blacklisted.              *)
(***************************************************************************)
C15_TransferFromPrecedence ==
  \A caller \in Accounts, from \in Accounts, to \in Accounts, amount \in Amounts :
    LET r == transfer_from(Storage, caller, from, to, amount) IN
    /\ r.res = TransferFromPrecedence(caller, from, to, amount)
    /\ (~paused /\ ~blacklist[from] /\ ~blacklist[to]
        /\ allowances[<<from, caller>>] < amount /\ balances[from] < amount)
         => r.res = ErrAllowance
    /\ paused => r.res = ErrPaused

\* A delegated transfer has just been refused for its allowance although the
\* balance of from was too small as well.
C15_Witness ==
  /\ call.op = "transfer_from" /\ call.res = ErrAllowance
  /\ call.old < call.amount
  /\ balances["alice"] < call.amount
  /\ ~paused /\ ~blacklist["alice"]

(***************************************************************************)
(* C16: the pause flag and the blacklist do not gate issuance and          *)
(* destruction.  In every reachable state, paused or not, with the caller  *)
(* or the target blacklisted or not, mint by the owner succeeds, and burn  *)
(* fails for insufficient balance exactly when the caller's balance is     *)
(* below the amount and otherwise succeeds and lowers that balance by      *)
(* exactly the amount, leaving everything else as it was.                  *)
(***************************************************************************)
C16_PauseDoesNotGateMintBurn ==
  /\ \A to \in Accounts, amount \in Amounts :
       LET r == mint(Storage, owner, to, amount) IN
       /\ r.res = Ok
       /\ r.st = [Storage EXCEPT !.balances[to] = Min(balances[to] + amount, U128_MAX)]
  /\ \A caller \in Accounts, amount \in Amounts :
       LET r == burn(Storage, caller, amount) IN
       /\ (r.res = ErrBurnBalance) <=> (balances[caller] < amount)
       /\ r.res \in {Ok, ErrBurnBalance}
       /\ r.res = Ok =>
            r.st = [Storage EXCEPT !.balances[caller] = balances[caller] - amount]
       /\ r.res # Ok => r.st = Storage

\* A burn has just succeeded while transfers are paused and an account is
\* blacklisted.
C16_Witness ==
  /\ call.op = "burn" /\ call.res = Ok /\ call.amount > 0
  /\ paused /\ blacklist["bob"]

(***************************************************************************)
(* C18: the sum of all balances never exceeds the total of the successful  *)
(* mints minus the total of the successful burns.  Both are 0 after new,   *)
(* and in every reachable state no call, with any caller and arguments,    *)
(* raises the sum by more than it adds to that difference: a successful    *)
(* mint raises the sum by at most its amount, a successful burn lowers it  *)
(* by exactly its amount, and no other call raises it (approve, set_paused *)
(* and set_blacklist leave every balance as it was), the saturating        *)
(* credits included: tokens are never created outside mint.                *)
(***************************************************************************)
C18_BalancesWithinSupply ==
  LET total == TotalBalance(Storage) IN
  /\ TotalBalance(new(owner)) = 0
  /\ \A caller \in Accounts, to \in Accounts, amount \in Amounts :
       /\ LET r == mint(Storage, caller, to, amount)
          IN TotalBalance(r.st) <= total + (IF r.res = Ok THEN amount ELSE 0)
       /\ LET r == burn(Storage, caller, amount)
          IN TotalBalance(r.st) = total - (IF r.res = Ok THEN amount ELSE 0)
       /\ TotalBalance(transfer(Storage, caller, to, amount).st) <= total
       /\ approve(Storage, caller, to, amount).st.balances = balances
       /\ \A from \in Accounts :
            TotalBalance(transfer_from(Storage, caller, from, to, amount).st) <= total
       /\ \A state \in BOOLEAN :
            /\ set_paused(Storage, caller, state).st.balances = balances
            /\ set_blacklist(Storage, caller, to, state).st.balances = balances
  /\ \A caller \in BatchCallers, b \in UnitBatches :
       TotalBalance(batch_transfer(Storage, caller, b[1], b[2]).st) <= total

\* A transfer has just succeeded and left the balances summing to less than
\* before it: its saturating credit has dropped tokens, and none was created.
C18_Witness ==
  /\ call.op = "transfer" /\ call.res = Ok /\ call.amount > 0
  /\ 0 < TotalBalance(Storage)
  /\ TotalBalance(Storage) < call.old

(***************************************************************************)
(* C20: the blacklist check of transfer_from covers from and to only, not  *)
(* the calling spender.  A blacklisted account c whose allowance from a is *)
(* at least N succeeds with transfer_from(a, b, N) when a and b are not    *)
(* blacklisted, transfers are not paused and a holds at least N: N leaves  *)
(* the balance of a and the allowance, and is credited to b (up to the     *)
(* saturation of the credit at the largest balance); nothing else changes. *)
(***************************************************************************)
C20_BlacklistedSpenderCanTransferFrom ==
  \A c \in Accounts, a \in Accounts, b \in Accounts, amount \in Amounts :
    (/\ blacklist[c] /\ ~blacklist[a] /\ ~blacklist[b] /\ ~paused
     /\ allowances[<<a, c>>] >= amount /\ balances[a] >= amount)
    => LET r == transfer_from(Storage, c, a, b, amount)
           debited == [balances EXCEPT ![a] = @ - amount]
           credited == [debited EXCEPT ![b] = Min(@ + amount, U128_MAX)]
       IN /\ r.res = Ok
          /\ r.ev = <<TransferEvent(a, b, amount)>>
          /\ r.st = [Storage EXCEPT !.balances = credited,
                                    !.allowances[<<a, c>>] = @ - amount]

\* The blacklisted spender has just moved a positive amount out of the
\* approver's balance.
C20_Witness ==
  /\ blacklist["bob"] /\ ~blacklist["alice"] /\ ~paused
  /\ call.op = "transfer_from" /\ call.res = Ok /\ call.amount > 0
  /\ allowances[<<"alice", "bob">>] = call.old - call.amount

\* The larger of two numbers.
Max(a, b) == IF a < b THEN b ELSE a

(***************************************************************************)
(* C17: the re-approval race is open.  In every reachable state in which   *)
(* transfers are not paused, a and the recipient are not blacklisted and a *)
(* holds at least N1 + N2, the calls approve(c, N1) by a, transfer_from(a, *)
(* to, N1) by c, approve(c, N2) by a and transfer_from(a, to, N2) by c all *)
(* succeed one after the other, the allowance of c is N1, 0, N2 and 0      *)
(* after them, never more than max(N1, N2), and a has lost N1 + N2.  Along *)
(* every execution the allowance has never been above the recorded peak    *)
(* and what c moved between two approvals is within it.                    *)
(***************************************************************************)
C17_ReapprovalRace ==
  /\ \A p \in ApprovePairs :
       /\ allowances[p] <= spend[p].peak
       /\ spend[p].moved <= spend[p].peak
       /\ spend[p].prevMoved <= spend[p].peak
  /\ \A p \in ApprovePairs, N1 \in Amounts, N2 \in Amounts :
       \A to \in Accounts \ {p[1]} :
         LET a == p[1]
             c == p[2]
             s1 == approve(Storage, a, c, N1)
             s2 == transfer_from(s1.st, c, a, to, N1)
             s3 == approve(s2.st, a, c, N2)
             s4 == transfer_from(s3.st, c, a, to, N2)
         IN (~paused /\ ~blacklist[a] /\ ~blacklist[to]
             /\ balances[a] >= N1 + N2)
            => /\ s1.res = Ok /\ s2.res = Ok /\ s3.res = Ok /\ s4.res = Ok
               /\ s1.st.allowances[p] = N1
               /\ s2.st.allowances[p] = 0
               /\ s3.st.allowances[p] = N2
               /\ s4.st.allowances[p] = 0
               /\ \A s \in {s1, s2, s3, s4} : s.st.allowances[p] <= Max(N1, N2)
               /\ s2.st.balances[a] = balances[a] - N1
               /\ s4.st.balances[a] = balances[a] - (N1 + N2)

\* The race has happened: the spender moved a positive amount before the
\* approver's latest approve and a positive amount after it, in total more
\* than the allowance has been in any state.
C17_Witness ==
  \E p \in ApprovePairs :
    /\ spend[p].prevMoved > 0
    /\ spend[p].moved > 0
    /\ spend[p].moved = spend[p].approved
    /\ spend[p].prevMoved + spend[p].moved > spend[p].peak

(***************************************************************************)
(* C19: allowance(a, c) is changed only by approve called by a for c,      *)
(* which sets it to the amount given, and by a successful transfer_from(a, *)
(* _, N) called by c, which lowers it by N and never below 0; mint, burn,  *)
(* transfer, batch_transfer, set_paused, set_blacklist and a failing       *)
(* transfer_from leave every allowance as it was.  Hence the total c has   *)
(* moved out of a since a's latest approve never exceeds the amount of     *)
(* that approve, and together with the allowance left never exceeds it.    *)
(***************************************************************************)
C19_AllowanceChangesOnlyByApproveAndSpend ==
  /\ \A p \in ApprovePairs :
       /\ spend[p].moved <= spend[p].approved
       /\ allowances[p] + spend[p].moved <= spend[p].approved
  /\ \A caller \in Accounts, to \in Accounts, amount \in Amounts :
       /\ mint(Storage, caller, to, amount).st.allowances = allowances
       /\ burn(Storage, caller, amount).st.allowances = allowances
       /\ transfer(Storage, caller, to, amount).st.allowances = allowances
       /\ approve(Storage, caller, to, amount).st.allowances =
            [allowances EXCEPT ![<<caller, to>>] = amount]
       /\ \A from \in Accounts :
            LET r == transfer_from(Storage, caller, from, to, amount) IN
            IF r.res = Ok
            THEN /\ amount <= allowances[<<from, caller>>]
                 /\ r.st.allowances =
                      [allowances EXCEPT ![<<from, caller>>] = @ - amount]
            ELSE r.st.allowances = allowances
       /\ \A state \in BOOLEAN :
            /\ set_paused(Storage, caller, state).st.allowances = allowances
            /\ set_blacklist(Storage, caller, to, state).st.allowances = allowances
  /\ \A caller \in BatchCallers, b \in ProbeBatches :
       batch_transfer(Storage, caller, b[1], b[2]).st.allowances = allowances

\* The spender has moved the whole of the largest approval out of the
\* approver's balance: nothing is left of the allowance.
C19_Witness ==
  \E p \in ApprovePairs :
    /\ spend[p].approved = U128_MAX
    /\ spend[p].moved = spend[p].approved
    /\ allowances[p] = 0

====
